---- MODULE Spec2Model ----
(***************************************************************************)
(* DeltaGen: manifest-driven validation and delta-job orchestration.       *)
(* Model of deltaGen_Agent/Utils.py.                                       *)
(*                                                                         *)
(* Text is a sequence of one-character strings, so that strip(),           *)
(* startswith(), split(',') and the markup of the config artifact are      *)
(* computed the way the code computes them.  A directory tree is the set   *)
(* of its directory paths and the set of its file paths, a path being the  *)
(* sequence of names below the tree's root.                                *)
(***************************************************************************)
EXTENDS Integers, Sequences, FiniteSets, TLC

VARIABLES
    targetTree,     \* extracted target tree: [dirs, files]
    sourceTree,     \* extracted source tree, or NoPath when none is supplied
    manifest,       \* the manifest files of the working directory
    disk,           \* the working directory: [files : path -> content, dirs]
    call,           \* the last operation called, with its arguments
    run,            \* the delta run in progress: position, outcomes so far
    ret             \* value returned by the last operation

vars == <<targetTree, sourceTree, manifest, disk, call, run, ret>>

----------------------------------------------------------------------------
(* Text helpers                                                            *)

SP == " "

RECURSIVE LStrip(_)
LStrip(s) == IF s # <<>> /\ Head(s) = SP THEN LStrip(Tail(s)) ELSE s

RECURSIVE RStrip(_)
RStrip(s) ==
    IF s # <<>> /\ s[Len(s)] = SP THEN RStrip(SubSeq(s, 1, Len(s) - 1)) ELSE s

\* str.strip()
Strip(s) == RStrip(LStrip(s))

\* str.startswith(p)
StartsWith(s, p) == Len(s) >= Len(p) /\ SubSeq(s, 1, Len(p)) = p

----------------------------------------------------------------------------
(* Directory trees                                                         *)

NoPath == [dirs |-> {<<"-">>}, files |-> {<<"-">>}]

MACOSX == <<"_", "_", "M", "A", "C", "O", "S", "X">>
DOT == <<".">>

\* os.listdir(root) restricted to directories
Subfolders(tree) == {p[1] : p \in {q \in tree.dirs : Len(q) = 1}}

\* os.path.exists(root/p)
Exists(tree, p) == p \in tree.dirs \/ p \in tree.files

\* the entries of the directory itself (os.listdir)
TopEntries(tree) == {p \in tree.dirs \cup tree.files : Len(p) = 1}

----------------------------------------------------------------------------
(* flatten_extracted_folder                                                *)

\* subfolders that are neither system artifacts nor hidden
MeaningfulSubfolders(tree) ==
    {f \in Subfolders(tree) : ~StartsWith(f, MACOSX) /\ ~StartsWith(f, DOT)}

\* the content of `nested` becomes the content of the directory; everything
\* else that was in the directory is removed with it (shutil.rmtree)
Hoist(tree, nested) ==
    [dirs  |-> {Tail(p) : p \in {q \in tree.dirs : Len(q) > 1 /\ Head(q) = nested}},
     files |-> {Tail(p) : p \in {q \in tree.files : Len(q) > 1 /\ Head(q) = nested}}]

flatten_extracted_folder(tree) ==
    LET subfolders == MeaningfulSubfolders(tree) IN
    IF Cardinality(subfolders) = 1
    THEN Hoist(tree, CHOOSE f \in subfolders : TRUE)
    ELSE tree

----------------------------------------------------------------------------
(* Partition manifest: <ecu>_Partition_file.xlsx / .csv                    *)
(*                                                                         *)
(* A cell is a text; the empty text stands for an empty cell (None).       *)
(* A spreadsheet is a sequence of sheets [name, rows], rows being          *)
(* sequences of cells.  The flat file is [header, rows] as csv.DictReader  *)
(* reads it.                                                               *)

NoFile == [sheets |-> <<>>, header |-> <<>>, rows |-> <<>>, present |-> FALSE]

HeaderScanRows == 10

Min(a, b) == IF a < b THEN a ELSE b

SetMin(S) == CHOOSE x \in S : \A y \in S : x <= y

\* 'atom' in str(cell.value)
Contains(text, atom) == \E i \in 1..Len(text) : text[i] = atom

SeqToSet(s) == {s[i] : i \in 1..Len(s)}

RECURSIVE SelectNonEmpty(_)
SelectNonEmpty(s) ==
    IF s = <<>> THEN <<>>
    ELSE IF Head(s) = <<>> THEN SelectNonEmpty(Tail(s))
    ELSE <<Head(s)>> \o SelectNonEmpty(Tail(s))

\* lines 178-187: the first cell, row by row within the scanned rows, whose
\* text contains Partition_Filename; row = 0 when there is none
FindFilenameColumn(rows) ==
    LET n == Min(Len(rows), HeaderScanRows)
        hit(r, c) == rows[r][c] # <<>> /\ Contains(rows[r][c], "Partition_Filename")
        hitRows == {r \in 1..n : \E c \in 1..Len(rows[r]) : hit(r, c)}
    IN  IF hitRows = {} THEN [row |-> 0, col |-> 0]
        ELSE LET r == SetMin(hitRows)
             IN  [row |-> r, col |-> SetMin({c \in 1..Len(rows[r]) : hit(r, c)})]

\* lines 202-205: the stripped, non-empty file names below the header cell
SheetFilenames(sheet) ==
    LET h == FindFilenameColumn(sheet.rows) IN
    IF h.row = 0 THEN <<>>
    ELSE LET below == SubSeq(sheet.rows, h.row + 1, Len(sheet.rows))
             cells == [i \in 1..Len(below) |-> below[i][h.col]]
             kept  == SelectNonEmpty(cells)
         IN  SelectNonEmpty([i \in 1..Len(kept) |-> Strip(kept[i])])

\* an omitted optional argument, a value that is not there (None)
NoneArg == <<"None">>

\* csv.DictReader row access: row.get(key, default).  The default is returned
\* only when the header has no such column; a row that stops short of the
\* column holds None there (DictReader's restval)
CsvGet(header, row, key, default) ==
    LET at == {i \in 1..Len(header) : header[i] = key}
    IN  IF at = {} THEN default
        ELSE LET i == CHOOSE i \in at : \A j \in at : j <= i
             IN  IF i <= Len(row) THEN row[i] ELSE NoneArg

\* list(row.values())[0]
CsvFirst(row) == IF row = <<>> THEN <<>> ELSE row[1]

----------------------------------------------------------------------------
(* Insertion-ordered dict (all_missing_files): a sequence of [key, files]  *)

DictHas(d, k) == \E i \in 1..Len(d) : d[i].key = k

DictGet(d, k) == d[CHOOSE i \in 1..Len(d) : d[i].key = k].files

DictSet(d, k, v) ==
    IF DictHas(d, k)
    THEN [i \in 1..Len(d) |-> IF d[i].key = k THEN [key |-> k, files |-> v] ELSE d[i]]
    ELSE Append(d, [key |-> k, files |-> v])

\* if k not in d: d[k] = []
DictSetDefault(d, k) == IF DictHas(d, k) THEN d ELSE DictSet(d, k, <<>>)

\* if k not in d: d[k] = []  followed by  d[k].append(x)
DictAppend(d, k, x) ==
    LET e == DictSetDefault(d, k) IN DictSet(e, k, Append(DictGet(e, k), x))

----------------------------------------------------------------------------
(* validate_target_folders_with_partition                                  *)

\* a path handed to the code that does not exist on disk
AbsentPath == [dirs |-> {<<"?">>}, files |-> {<<"?">>}]

Key(side, group) == [side |-> side, group |-> group]

SheetNames(sheets) == [i \in 1..Len(sheets) |-> sheets[i].name]

\* lines 150-153, 162-165: the sheets with no folder of their name
MissingFolders(sheet_names, subfolders) ==
    SelectSeq(sheet_names, LAMBDA n : n \notin subfolders)

\* lines 207-209, 213-215: the listed files absent from <root>/<sheet>/
MissingFilesIn(tree, sheet_name, filenames) ==
    SelectSeq(filenames, LAMBDA f : ~Exists(tree, <<sheet_name, f>>))

\* mutant of RecordMissing: the key is recorded even when nothing is missing
RecordMissing_Always(d, key, missing) == DictSet(d, key, missing)

\* lines 217-223: a key is recorded only for a non-empty list
RecordMissing(d, key, missing) ==
    IF missing # <<>> THEN DictSet(d, key, missing) ELSE d

\* lines 173-223, one sheet
XlsxSheetStep(acc, sheet, target, source) ==
    IF FindFilenameColumn(sheet.rows).row = 0 THEN acc
    ELSE LET filenames == SheetFilenames(sheet)
             missing_target_files == MissingFilesIn(target, sheet.name, filenames)
             missing_source_files ==
                 IF source # NoPath
                 THEN MissingFilesIn(source, sheet.name, filenames) ELSE <<>>
             d1 == RecordMissing(acc.missing, Key("target", sheet.name),
                                 missing_target_files)
             d2 == IF source # NoPath
                   THEN RecordMissing(d1, Key("source", sheet.name),
                                      missing_source_files)
                   ELSE d1
         IN  [missing |-> d2,
              checks  |-> acc.checks
                          + Len(filenames) * (IF source # NoPath THEN 2 ELSE 1)]

RECURSIVE XlsxSheets(_, _, _, _)
XlsxSheets(acc, sheets, target, source) ==
    IF sheets = <<>> THEN acc
    ELSE XlsxSheets(XlsxSheetStep(acc, Head(sheets), target, source),
                    Tail(sheets), target, source)

\* mutant of CsvFolderAbsent: the absent folder leaves no trace
CsvFolderAbsent_Dropped(d, key) == d

\* lines 248-252, 266-269: a row whose folder is absent
CsvFolderAbsent(d, key) == DictSetDefault(d, key)

\* lines 237-278, one row
CsvRowStep(acc, header, row, target, source) ==
    LET folder_name == CsvFirst(row)
        partition_filename == Strip(CsvGet(header, row, "Partition_Filename", <<>>))
    IN  IF folder_name = <<>> \/ partition_filename = <<>> THEN acc
        ELSE IF folder_name \notin Subfolders(target)
        THEN [acc EXCEPT !.missing = CsvFolderAbsent(@, Key("target", folder_name))]
        ELSE LET a1 == [missing |->
                            IF ~Exists(target, <<folder_name, partition_filename>>)
                            THEN DictAppend(acc.missing, Key("target", folder_name),
                                            partition_filename)
                            ELSE acc.missing,
                        checks |-> acc.checks + 1]
             IN  IF source = NoPath THEN a1
                 ELSE IF folder_name \notin Subfolders(source)
                 THEN [a1 EXCEPT !.missing =
                                    CsvFolderAbsent(@, Key("source", folder_name))]
                 ELSE [missing |->
                           IF ~Exists(source, <<folder_name, partition_filename>>)
                           THEN DictAppend(a1.missing, Key("source", folder_name),
                                           partition_filename)
                           ELSE a1.missing,
                       checks |-> a1.checks + 1]

RECURSIVE CsvRows(_, _, _, _, _)
CsvRows(acc, header, rows, target, source) ==
    IF rows = <<>> THEN acc
    ELSE CsvRows(CsvRowStep(acc, header, Head(rows), target, source),
                 header, Tail(rows), target, source)

\* line 243: .strip() of None, for a row that stops short of the
\* Partition_Filename column, raises AttributeError
CsvFilenameRaises(header, row) ==
    CsvGet(header, row, "Partition_Filename", <<>>) = NoneArg

\* files[:5], line 289
ShownNames == 5

\* mutant of ReportLine: the omitted names are not counted
ReportLine_NoCount(entry) ==
    [key   |-> entry.key,
     total |-> Len(entry.files),
     shown |-> SubSeq(entry.files, 1, Min(Len(entry.files), ShownNames)),
     more  |-> 0]

\* lines 289-291: "<side>/<group>: <n> missing files - <first names>" and,
\* beyond five names, " ... and <n - 5> more"; more = 0 when that is not shown
ReportLine(entry) ==
    [key   |-> entry.key,
     total |-> Len(entry.files),
     shown |-> SubSeq(entry.files, 1, Min(Len(entry.files), ShownNames)),
     more  |-> IF Len(entry.files) > ShownNames
               THEN Len(entry.files) - ShownNames ELSE 0]

\* lines 288-292: one line per key, in insertion order
ReportLines(missing) == [i \in 1..Len(missing) |-> ReportLine(missing[i])]

\* lines 285-300
ValidationReport(acc, source) ==
    IF acc.missing # <<>>
    THEN [kind |-> "missing_files", entries |-> acc.missing, checks |-> acc.checks,
          lines |-> ReportLines(acc.missing)]
    ELSE [kind |-> "success", with_source |-> source # NoPath, checks |-> acc.checks]

\* mutant of validate_target_folders_with_partition: the flat file is looked
\* for first
validate_target_folders_with_partition_CsvFirst(target, m, source) ==
    LET start == [missing |-> <<>>, checks |-> 0] IN
    IF target = AbsentPath THEN [kind |-> "target_path_missing"]
    ELSE IF source # NoPath /\ source = AbsentPath
    THEN [kind |-> "source_path_missing"]
    ELSE IF m.csv.present
    THEN IF \E i \in 1..Len(m.csv.rows) : CsvFilenameRaises(m.csv.header, m.csv.rows[i])
         THEN [kind |-> "raised"]
         ELSE ValidationReport(
                  CsvRows(start, m.csv.header, m.csv.rows, target, source), source)
    ELSE IF m.xlsx.present /\ m.openpyxl
    THEN LET sheet_names == SheetNames(m.xlsx.sheets)
             missing_folders == MissingFolders(sheet_names, Subfolders(target))
             missing_source_folders ==
                 IF source # NoPath
                 THEN MissingFolders(sheet_names, Subfolders(source)) ELSE <<>>
         IN  IF missing_folders # <<>>
             THEN [kind |-> "missing_folders", side |-> "Target",
                   names |-> missing_folders, checks |-> 0]
             ELSE IF missing_source_folders # <<>>
             THEN [kind |-> "missing_folders", side |-> "Source",
                   names |-> missing_source_folders, checks |-> 0]
             ELSE ValidationReport(
                      XlsxSheets(start, m.xlsx.sheets, target, source), source)
    ELSE IF m.xlsx.present /\ ~m.openpyxl THEN [kind |-> "openpyxl_missing"]
    ELSE IF m.csv.present
    THEN IF \E i \in 1..Len(m.csv.rows) : CsvFilenameRaises(m.csv.header, m.csv.rows[i])
         THEN [kind |-> "raised"]
         ELSE ValidationReport(
                  CsvRows(start, m.csv.header, m.csv.rows, target, source), source)
    ELSE [kind |-> "manifest_not_found"]

validate_target_folders_with_partition(target, m, source) ==
    LET start == [missing |-> <<>>, checks |-> 0] IN
    IF target = AbsentPath THEN [kind |-> "target_path_missing"]
    ELSE IF source # NoPath /\ source = AbsentPath
    THEN [kind |-> "source_path_missing"]
    ELSE IF m.xlsx.present /\ m.openpyxl
    THEN LET sheet_names == SheetNames(m.xlsx.sheets)
             missing_folders == MissingFolders(sheet_names, Subfolders(target))
             missing_source_folders ==
                 IF source # NoPath
                 THEN MissingFolders(sheet_names, Subfolders(source)) ELSE <<>>
         IN  IF missing_folders # <<>>
             THEN [kind |-> "missing_folders", side |-> "Target",
                   names |-> missing_folders, checks |-> 0]
             ELSE IF missing_source_folders # <<>>
             THEN [kind |-> "missing_folders", side |-> "Source",
                   names |-> missing_source_folders, checks |-> 0]
             ELSE ValidationReport(
                      XlsxSheets(start, m.xlsx.sheets, target, source), source)
    ELSE IF m.xlsx.present /\ ~m.openpyxl THEN [kind |-> "openpyxl_missing"]
    ELSE IF m.csv.present
    THEN IF \E i \in 1..Len(m.csv.rows) : CsvFilenameRaises(m.csv.header, m.csv.rows[i])
         THEN [kind |-> "raised"]
         ELSE ValidationReport(
                  CsvRows(start, m.csv.header, m.csv.rows, target, source), source)
    ELSE [kind |-> "manifest_not_found"]

----------------------------------------------------------------------------
(* generate_config_xml: reading the manifest into job units                *)

required_cols == <<"PartitionName", "PartitionType", "ImageType", "InPlace", "Sparse">>

NoCols == [k \in SeqToSet(required_cols) |-> 0]

\* lines 377-383, one row: the last cell of the row holding a required
\* header wins; header_row is the first row holding any
ScanHeaderRow(acc, row, r) ==
    LET at(k) == {c \in 1..Len(row) : row[c] # <<>> /\ Strip(row[c]) = <<k>>}
        cols == [k \in SeqToSet(required_cols) |->
                    IF at(k) = {} THEN acc.cols[k]
                    ELSE CHOOSE c \in at(k) : \A e \in at(k) : e <= c]
        any == \E k \in SeqToSet(required_cols) : at(k) # {}
    IN  [cols |-> cols,
         header_row |-> IF acc.header_row = 0 /\ any THEN r ELSE acc.header_row]

AllColsFound(cols) == \A k \in SeqToSet(required_cols) : cols[k] # 0

\* lines 376-386: rows 1..10, stopping once all five columns are known
RECURSIVE ScanHeader(_, _, _)
ScanHeader(acc, rows, r) ==
    IF r > Min(Len(rows), HeaderScanRows) THEN acc
    ELSE LET next == ScanHeaderRow(acc, rows[r], r)
         IN  IF AllColsFound(next.cols) THEN next ELSE ScanHeader(next, rows, r + 1)

\* str(cell).strip() if cell else default
CellOr(cell, default) == IF cell # <<>> THEN Strip(cell) ELSE default

ImagePath(root, folder, partition_name) ==
    root \o <<"/">> \o folder \o <<"/">> \o partition_name \o <<".img">>

StatisticsPath(cwd, partition_name) ==
    cwd \o <<"/">> \o partition_name \o <<"_full.csv">>

\* lines 400-409
XlsxPartition(row, cols, sheet_name, source_path, target_path, cwd) ==
    LET partition_name == CellOr(row[cols["PartitionName"]], <<>>) IN
    [PartitionName |-> partition_name,
     PartitionType |-> CellOr(row[cols["PartitionType"]], <<"PT_FS_IMAGE">>),
     ImageType     |-> CellOr(row[cols["ImageType"]], <<"ext4">>),
     InPlace       |-> CellOr(row[cols["InPlace"]], <<"0">>),
     Sparse        |-> CellOr(row[cols["Sparse"]], <<"1">>),
     SourceVersion |-> ImagePath(source_path, sheet_name, partition_name),
     TargetVersion |-> ImagePath(target_path, sheet_name, partition_name),
     Statistics    |-> StatisticsPath(cwd, partition_name)]

\* lines 397-398, 431-432: a record without a name is dropped
RECURSIVE DropUnnamed(_)
DropUnnamed(ps) ==
    IF ps = <<>> THEN <<>>
    ELSE IF Head(ps).PartitionName = <<>> THEN DropUnnamed(Tail(ps))
    ELSE <<Head(ps)>> \o DropUnnamed(Tail(ps))

\* lines 368-411, one sheet
XlsxSheetPartitions(sheet, source_path, target_path, cwd) ==
    LET h == ScanHeader([cols |-> NoCols, header_row |-> 0], sheet.rows, 1) IN
    IF ~AllColsFound(h.cols) THEN <<>>
    ELSE LET below == SubSeq(sheet.rows, h.header_row + 1, Len(sheet.rows))
         IN  DropUnnamed([i \in 1..Len(below) |->
                 XlsxPartition(below[i], h.cols, sheet.name,
                               source_path, target_path, cwd)])

RECURSIVE XlsxPartitions(_, _, _, _)
XlsxPartitions(sheets, source_path, target_path, cwd) ==
    IF sheets = <<>> THEN <<>>
    ELSE XlsxSheetPartitions(Head(sheets), source_path, target_path, cwd)
         \o XlsxPartitions(Tail(sheets), source_path, target_path, cwd)

\* lines 428-443; a default applies only when the column itself is absent
CsvPartition(header, row, source_path, target_path, cwd) ==
    LET partition_name == Strip(CsvGet(header, row, "PartitionName", <<>>))
        folder_name == Strip(CsvFirst(row))
    IN  [PartitionName |-> IF folder_name = <<>> THEN <<>> ELSE partition_name,
         PartitionType |-> Strip(CsvGet(header, row, "PartitionType", <<"PT_FS_IMAGE">>)),
         ImageType     |-> Strip(CsvGet(header, row, "ImageType", <<"ext4">>)),
         InPlace       |-> Strip(CsvGet(header, row, "InPlace", <<"0">>)),
         Sparse        |-> Strip(CsvGet(header, row, "Sparse", <<"1">>)),
         SourceVersion |-> ImagePath(source_path, folder_name, partition_name),
         TargetVersion |-> ImagePath(target_path, folder_name, partition_name),
         Statistics    |-> StatisticsPath(cwd, partition_name)]

\* lines 428-439: .strip() of None raises AttributeError: for the name of
\* every row, for the four defaulted fields of the rows that are kept
CsvPartitionRaises(header, row) ==
    LET none(key) == CsvGet(header, row, key, <<>>) = NoneArg
    IN  \/ none("PartitionName")
        \/ /\ Strip(CsvGet(header, row, "PartitionName", <<>>)) # <<>>
           /\ Strip(CsvFirst(row)) # <<>>
           /\ \E key \in {"PartitionType", "ImageType", "InPlace", "Sparse"} : none(key)

\* lines 424-445
CsvPartitions(c, source_path, target_path, cwd) ==
    DropUnnamed([i \in 1..Len(c.rows) |->
        CsvPartition(c.header, c.rows[i], source_path, target_path, cwd)])

----------------------------------------------------------------------------
(* generate_config_xml: the config artifact                                *)

NL == "\n"
IND1 == "    "
IND2 == "        "

Open(tag) == "<" \o tag \o ">"
Close(tag) == "</" \o tag \o ">"

XmlDecl == "<?xml version=\"1.0\" encoding=\"UTF-8\"?>"

\* an f-string line: the value is pasted between the tags as it is
XmlLine(indent, tag, value) == <<indent, Open(tag)>> \o value \o <<Close(tag)>>

RECURSIVE JoinWith(_, _)
JoinWith(parts, sep) ==
    IF parts = <<>> THEN <<>>
    ELSE IF Len(parts) = 1 THEN parts[1]
    ELSE parts[1] \o <<sep>> \o JoinWith(Tail(parts), sep)

\* lines 470-481
PartitionLines(partition) ==
    << <<IND1, Open("Partition")>>,
       XmlLine(IND2, "PartitionName", partition.PartitionName),
       XmlLine(IND2, "PartitionType", partition.PartitionType),
       XmlLine(IND2, "ImageType", partition.ImageType),
       XmlLine(IND2, "InPlace", partition.InPlace),
       XmlLine(IND2, "Sparse", partition.Sparse),
       XmlLine(IND2, "SourceVersion", partition.SourceVersion),
       XmlLine(IND2, "TargetVersion", partition.TargetVersion),
       XmlLine(IND2, "Statistics", partition.Statistics),
       <<IND1, Close("Partition")>> >>

RECURSIVE AllPartitionLines(_)
AllPartitionLines(partitions) ==
    IF partitions = <<>> THEN <<>>
    ELSE PartitionLines(Head(partitions)) \o AllPartitionLines(Tail(partitions))

\* lines 456-483 and the join of line 504
ConfigXml(partitions, component_delta_filename) ==
    JoinWith(
        << <<XmlDecl>>, <<Open("vrm")>>,
           XmlLine(IND1, "DeviceOS", <<"Android">>),
           XmlLine(IND1, "CreateDp", <<"./CreateDp5">>),
           XmlLine(IND1, "DpVersion", <<"5">>),
           XmlLine(IND1, "ComponentDeltaFileName", component_delta_filename),
           XmlLine(IND1, "RamSize", <<"0xA000000">>),
           XmlLine(IND1, "NumBackupSectors", <<"1024">>) >>
        \o AllPartitionLines(partitions)
        \o << <<Close("vrm")>> >>,
        NL)

\* the working directory, and the files and folders under it:
\* [files : path -> content, dirs : set of paths]
CWD == <<"cwd">>

PathJoin(a, b) == a \o <<"/">> \o b

EndsWith(text, atom) == text # <<>> /\ text[Len(text)] = atom

NoFiles == [p \in {} |-> <<>>]

EmptyDisk == [files |-> NoFiles, dirs |-> {CWD}]

\* os.path.dirname
RECURSIVE Dirname(_)
Dirname(path) ==
    IF path = <<>> THEN <<>>
    ELSE IF path[Len(path)] = "/" THEN SubSeq(path, 1, Len(path) - 1)
    ELSE Dirname(SubSeq(path, 1, Len(path) - 1))

WriteFile(d, path, content) ==
    [d EXCEPT !.files = (path :> content) @@ d.files]

MakeDirs(d, dir) == [d EXCEPT !.dirs = @ \cup {dir}]

\* mutant of ConfigXmlPath: one file name whatever the selection
ConfigXmlPath_Single(output_path, partition_sheet) ==
    IF EndsWith(output_path, ".xml") THEN output_path
    ELSE PathJoin(output_path, <<"config", ".xml">>)

\* lines 487-496
ConfigXmlPath(output_path, partition_sheet) ==
    IF EndsWith(output_path, ".xml") THEN output_path
    ELSE IF partition_sheet # NoneArg /\ partition_sheet # <<>>
    THEN PathJoin(output_path, <<"config_">> \o partition_sheet \o <<".xml">>)
    ELSE PathJoin(output_path, <<"config", ".xml">>)

\* mutant of WriteConfig: the empty list of partitions is written out too
WriteConfig_EmptyToo(partitions, component_delta_filename, output_arg, partition_sheet, d) ==
    LET output_path == IF output_arg = NoneArg THEN CWD ELSE output_arg
        config_xml_path == ConfigXmlPath(output_path, partition_sheet)
    IN  [ret  |-> [kind |-> "generated", count |-> Len(partitions),
                   sheet |-> partition_sheet, path |-> config_xml_path],
         disk |-> WriteFile(d, config_xml_path,
                            ConfigXml(partitions, component_delta_filename))]

\* lines 452-510
WriteConfig(partitions, component_delta_filename, output_arg, partition_sheet, d) ==
    LET output_path == IF output_arg = NoneArg THEN CWD ELSE output_arg
        config_xml_path == ConfigXmlPath(output_path, partition_sheet)
        output_dir == IF EndsWith(output_path, ".xml")
                      THEN Dirname(output_path) ELSE output_path
        d1 == IF output_dir # <<>> /\ output_dir \notin d.dirs
              THEN MakeDirs(d, output_dir) ELSE d
    IN  IF partitions = <<>> THEN [ret |-> [kind |-> "no_partitions"], disk |-> d]
        ELSE [ret  |-> [kind |-> "generated", count |-> Len(partitions),
                        sheet |-> partition_sheet, path |-> config_xml_path],
              disk |-> WriteFile(d1, config_xml_path,
                                 ConfigXml(partitions, component_delta_filename))]

\* line 353: more than one sheet and no sheet selected
MustSelectSheet(sheet_names, partition_sheet) ==
    Len(sheet_names) > 1 /\ partition_sheet = NoneArg

generate_config_xml(m, source_path, target_path, component_delta_filename, output_arg, partition_sheet, d) ==
    IF m.xlsx.present /\ m.openpyxl
    THEN LET sheet_names == SheetNames(m.xlsx.sheets)
             selected == partition_sheet # NoneArg /\ partition_sheet # <<>>
             sheets_to_process ==
                 IF selected
                 THEN SelectSeq(m.xlsx.sheets, LAMBDA sh : sh.name = partition_sheet)
                 ELSE m.xlsx.sheets
         IN  IF MustSelectSheet(sheet_names, partition_sheet)
             THEN [ret |-> [kind |-> "select_sheet", names |-> sheet_names], disk |-> d]
             ELSE IF selected /\ partition_sheet \notin SeqToSet(sheet_names)
             THEN [ret |-> [kind |-> "sheet_not_found", names |-> sheet_names],
                   disk |-> d]
             ELSE WriteConfig(
                      XlsxPartitions(sheets_to_process, source_path, target_path, CWD),
                      component_delta_filename, output_arg, partition_sheet, d)
    ELSE IF m.xlsx.present /\ ~m.openpyxl
    THEN [ret |-> [kind |-> "openpyxl_missing"], disk |-> d]
    ELSE IF m.csv.present
    THEN IF \E i \in 1..Len(m.csv.rows) : CsvPartitionRaises(m.csv.header, m.csv.rows[i])
         THEN [ret |-> [kind |-> "raised"], disk |-> d]
         ELSE WriteConfig(CsvPartitions(m.csv, source_path, target_path, CWD),
                          component_delta_filename, output_arg, partition_sheet, d)
    ELSE [ret |-> [kind |-> "manifest_not_found"], disk |-> d]

----------------------------------------------------------------------------
(* parse_config_xml                                                        *)
(*                                                                         *)
(* ElementTree reads the artifact as markup.  The tokens are the tags the  *)
(* builder writes, white space, and ordinary characters; a bare "<" or     *)
(* "&" in character data is not well-formed and makes ET.parse raise.      *)

Tags ==
    {"vrm", "DeviceOS", "CreateDp", "DpVersion", "ComponentDeltaFileName",
     "RamSize", "NumBackupSectors", "Partition", "PartitionName",
     "PartitionType", "ImageType", "InPlace", "Sparse", "SourceVersion",
     "TargetVersion", "Statistics"}

IsOpenTag(tok) == \E t \in Tags : tok = Open(t)
IsCloseTag(tok) == \E t \in Tags : tok = Close(t)
TagOf(tok) == CHOOSE t \in Tags : tok = Open(t) \/ tok = Close(t)
IsMarkupChar(tok) == tok \in {"<", "&"}
IsWhite(tok) == tok \in {SP, NL, IND1, IND2}

ParseStart ==
    [err |-> FALSE, stack |-> <<>>, slots |-> <<>>, root_seen |-> FALSE,
     any |-> FALSE]

Top(st) == st.stack[Len(st.stack)]

ParseOpen(st, tag) ==
    IF st.stack = <<>> /\ st.root_seen THEN [st EXCEPT !.err = TRUE]
    ELSE LET is_partition == tag = "Partition" /\ st.stack # <<>>
             slots == IF is_partition
                      THEN Append(st.slots, [found |-> FALSE, text |-> <<>>])
                      ELSE st.slots
             frame == [tag |-> tag, text |-> <<>>, sealed |-> FALSE,
                       slot |-> IF is_partition THEN Len(slots) ELSE 0]
             below == IF st.stack = <<>> THEN <<>>
                      ELSE [st.stack EXCEPT ![Len(st.stack)].sealed = TRUE]
         IN  [st EXCEPT !.stack = Append(below, frame), !.slots = slots,
                        !.root_seen = TRUE, !.any = TRUE]

\* find('PartitionName'): the first child of that name gives the text
ParseClose(st, tag) ==
    IF st.stack = <<>> \/ Top(st).tag # tag THEN [st EXCEPT !.err = TRUE]
    ELSE LET frame == Top(st)
             rest == SubSeq(st.stack, 1, Len(st.stack) - 1)
             fills == /\ tag = "PartitionName"
                      /\ rest # <<>>
                      /\ rest[Len(rest)].tag = "Partition"
                      /\ rest[Len(rest)].slot # 0
                      /\ ~st.slots[rest[Len(rest)].slot].found
         IN  [st EXCEPT !.stack = rest,
                        !.slots = IF fills
                                  THEN [@ EXCEPT ![rest[Len(rest)].slot] =
                                           [found |-> TRUE, text |-> frame.text]]
                                  ELSE @]

ParseText(st, tok) ==
    IF st.stack = <<>>
    THEN IF IsWhite(tok) THEN st ELSE [st EXCEPT !.err = TRUE]
    ELSE IF Top(st).sealed THEN st
    ELSE [st EXCEPT !.stack[Len(st.stack)].text = Append(@, tok)]

ParseToken(st, tok) ==
    IF st.err THEN st
    ELSE IF tok = XmlDecl
    THEN IF st.any THEN [st EXCEPT !.err = TRUE] ELSE [st EXCEPT !.any = TRUE]
    ELSE IF IsMarkupChar(tok) THEN [st EXCEPT !.err = TRUE]
    ELSE IF IsOpenTag(tok) THEN ParseOpen(st, TagOf(tok))
    ELSE IF IsCloseTag(tok) THEN ParseClose(st, TagOf(tok))
    ELSE [ParseText(st, tok) EXCEPT !.any = TRUE]

\* the tokens lo..hi in order (split in halves to keep the evaluation shallow)
RECURSIVE ParseTokens(_, _, _, _)
ParseTokens(st, toks, lo, hi) ==
    IF lo > hi THEN st
    ELSE IF lo = hi THEN ParseToken(st, toks[lo])
    ELSE LET mid == (lo + hi) \div 2
             left == ParseTokens(st, toks, lo, mid)
         IN  IF left.err THEN left ELSE ParseTokens(left, toks, mid + 1, hi)

\* ET.parse: the document is well-formed with one root element
EtParse(content) ==
    LET st == ParseTokens(ParseStart, content, 1, Len(content))
    IN  [ok |-> ~st.err /\ st.stack = <<>> /\ st.root_seen, slots |-> st.slots]

\* lines 641-646: Partition elements in document order, those with a
\* PartitionName child that has text; the text is stripped
RECURSIVE PartitionNamesOf(_)
PartitionNamesOf(slots) ==
    IF slots = <<>> THEN <<>>
    ELSE IF Head(slots).found /\ Head(slots).text # <<>>
    THEN <<Strip(Head(slots).text)>> \o PartitionNamesOf(Tail(slots))
    ELSE PartitionNamesOf(Tail(slots))

parse_config_xml(d, config_file_path) ==
    IF config_file_path \notin DOMAIN d.files THEN [kind |-> "config_not_found"]
    ELSE LET doc == EtParse(d.files[config_file_path])
             partitions == PartitionNamesOf(doc.slots)
         IN  IF ~doc.ok THEN [kind |-> "parse_failed"]
             ELSE IF partitions = <<>> THEN [kind |-> "no_partitions"]
             ELSE [kind |-> "names", text |-> JoinWith(partitions, ",")]

\* partition_files.split(','): the pieces between commas
RECURSIVE SplitOn(_, _, _)
SplitOn(text, sep, piece) ==
    IF text = <<>> THEN <<piece>>
    ELSE IF Head(text) = sep THEN <<piece>> \o SplitOn(Tail(text), sep, <<>>)
    ELSE SplitOn(Tail(text), sep, Append(piece, Head(text)))

----------------------------------------------------------------------------
(* generate_delta and generate_xdelta: the per-unit runs                   *)
(*                                                                         *)
(* The external tool is the environment: a subprocess ends with an exit    *)
(* code, by timeout or by an exception of subprocess.run, and may or may   *)
(* not have written its output file.                                       *)

IdleRun ==
    [pc |-> "idle", tool |-> "none", units |-> <<>>, idx |-> 0, running |-> 0,
     results |-> <<>>, invoked |-> <<>>, outcomes |-> <<>>, exe |-> <<>>,
     probe |-> 0, probed |-> "none", sheet |-> <<>>, output_path |-> <<>>,
     before |-> EmptyDisk]

\* os.path.exists in the working directory
OnDisk(d, path) == path \in DOMAIN d.files \/ path \in d.dirs

DeltaOutputDir == PathJoin(CWD, <<"delta_output">>)

redbend_exe == <<"vRapidMobileCMD-Linux.exe">>

\* [f.strip() for f in names.split(',')]
SplitNames(names) ==
    LET pieces == SplitOn(names, ",", <<>>)
    IN  [i \in 1..Len(pieces) |-> Strip(pieces[i])]

\* lines 546-550, 684-687
EnsureDir(d, dir) == IF OnDisk(d, dir) THEN d ELSE MakeDirs(d, dir)

\* mutant of MissingConfigs: the search stops at the first missing file
MissingConfigs_FirstOnly(d, config_files) ==
    LET all == SelectSeq(config_files, LAMBDA f : ~OnDisk(d, PathJoin(CWD, f)))
    IN  IF all = <<>> THEN <<>> ELSE <<all[1]>>

\* lines 567-571
MissingConfigs(d, config_files) ==
    SelectSeq(config_files, LAMBDA f : ~OnDisk(d, PathJoin(CWD, f)))

\* line 580
RedbendCommand(config_file) ==
    [exe |-> PathJoin(CWD, redbend_exe), verb |-> "gen",
     arg |-> PathJoin(CWD, config_file), unit |-> config_file,
     out |-> DeltaOutputDir]

\* mutant of RedbendResult: a non-zero exit code is reported as a failure
RedbendResult_ExitCode(config_file, outcome) ==
    IF outcome.kind = "exit"
    THEN [unit |-> config_file, ok |-> outcome.code = 0,
          what |-> IF outcome.code = 0 THEN "Success" ELSE "Failed"]
    ELSE IF outcome.kind = "timeout"
    THEN [unit |-> config_file, ok |-> FALSE, what |-> "Timeout"]
    ELSE [unit |-> config_file, ok |-> FALSE, what |-> "Exception"]

\* lines 594-611: the line appended to results for one config file
RedbendResult(config_file, outcome) ==
    IF outcome.kind = "exit"
    THEN [unit |-> config_file, ok |-> TRUE, what |-> "Success"]
    ELSE IF outcome.kind = "timeout"
    THEN [unit |-> config_file, ok |-> FALSE, what |-> "Timeout"]
    ELSE [unit |-> config_file, ok |-> FALSE, what |-> "Exception"]

\* lines 691, 693
xdelta_candidates == <<"xdelta3", "xdelta", "xdelta3.exe">>

ImageFile(partition) == partition \o <<".img">>

\* lines 711-718: per partition, the source image is looked for before the
\* target image
ImageChecks(partitions, sheet) ==
    [i \in 1..(2 * Len(partitions)) |->
        [side |-> IF i % 2 = 1 THEN "source" ELSE "target",
         sheet |-> sheet,
         partition |-> partitions[(i + 1) \div 2]]]

ImageExists(check, source, target) ==
    Exists(IF check.side = "source" THEN source ELSE target,
           <<check.sheet, ImageFile(check.partition)>>)

\* mutant of MissingImages: only the source side is looked at
MissingImages_SourceOnly(partitions, sheet, source, target) ==
    SelectSeq(ImageChecks(partitions, sheet),
              LAMBDA c : c.side = "source" /\ ~ImageExists(c, source, target))

\* lines 710-718: missing_files
MissingImages(partitions, sheet, source, target) ==
    SelectSeq(ImageChecks(partitions, sheet),
              LAMBDA c : ~ImageExists(c, source, target))

DeltaFile(output_path, partition) == PathJoin(output_path, partition \o <<".delta">>)

\* line 731
XdeltaCommand(exe, sheet, partition, output_path) ==
    [exe |-> exe, verb |-> "-e -s",
     arg |-> <<sheet, ImageFile(partition)>>, unit |-> partition,
     out |-> DeltaFile(output_path, partition)]

\* mutant of XdeltaResult: the delta file is not looked for
XdeltaResult_ExitOnly(partition, outcome, delta_exists) ==
    IF outcome.kind = "exit"
    THEN IF outcome.code = 0
         THEN [unit |-> partition, ok |-> TRUE, what |-> "Success"]
         ELSE [unit |-> partition, ok |-> FALSE, what |-> "Failed"]
    ELSE IF outcome.kind = "timeout"
    THEN [unit |-> partition, ok |-> FALSE, what |-> "Timeout"]
    ELSE [unit |-> partition, ok |-> FALSE, what |-> "Exception"]

\* lines 745-766: the line appended to results for one partition
XdeltaResult(partition, outcome, delta_exists) ==
    IF outcome.kind = "exit"
    THEN IF outcome.code = 0
         THEN IF delta_exists
              THEN [unit |-> partition, ok |-> TRUE, what |-> "Success"]
              ELSE [unit |-> partition, ok |-> FALSE, what |-> "Delta file not created"]
         ELSE [unit |-> partition, ok |-> FALSE, what |-> "Failed"]
    ELSE IF outcome.kind = "timeout"
    THEN [unit |-> partition, ok |-> FALSE, what |-> "Timeout"]
    ELSE [unit |-> partition, ok |-> FALSE, what |-> "Exception"]

\* mutant of NextUnit: a timeout ends the batch
NextUnit_StopOnTimeout(r, outcome) ==
    IF outcome.kind = "timeout" THEN Len(r.units) + 1 ELSE r.idx + 1

\* lines 578, 725: the for loop goes on to the next unit whatever happened
NextUnit(r, outcome) == r.idx + 1

\* what a subprocess of a unit can do
UnitOutcomes ==
    {[kind |-> "exit", code |-> c, wrote |-> w] : c \in {0, 1}, w \in BOOLEAN}
    \cup {[kind |-> "timeout", code |-> 0 - 1, wrote |-> FALSE],
          [kind |-> "exception", code |-> 0 - 1, wrote |-> FALSE]}

\* what the version probe of one candidate can do
ProbeOutcomes == {"ok", "nonzero", "notfound", "timeout", "oserror"}

\* the report returned after the loop, lines 613-617 and 768-771
Summary(r, results) ==
    [kind |-> "summary", tool |-> r.tool, count |-> Len(r.units),
     results |-> results]

\* generate_delta up to its first subprocess, lines 544-578
DeltaStart(d, config_file_names) ==
    LET d1 == EnsureDir(d, DeltaOutputDir)
        config_files == SplitNames(config_file_names)
        missing == MissingConfigs(d1, config_files)
        r == [IdleRun EXCEPT !.tool = "generate_delta", !.before = d,
                             !.output_path = DeltaOutputDir]
    IN  IF ~OnDisk(d1, PathJoin(CWD, redbend_exe))
        THEN [disk |-> d1, run |-> [r EXCEPT !.pc = "done"],
              ret |-> [kind |-> "exe_not_found"]]
        ELSE IF missing # <<>>
        THEN [disk |-> d1, run |-> [r EXCEPT !.pc = "done"],
              ret |-> [kind |-> "config_not_found", names |-> missing]]
        ELSE [disk |-> d1,
              run |-> [r EXCEPT !.pc = "loop", !.units = config_files,
                                !.idx = 1, !.exe = PathJoin(CWD, redbend_exe)],
              ret |-> [kind |-> "none"]]

\* mutant of UnitDone: the new line replaces the lines recorded so far
UnitDone_Overwrite(r, outcome, line) ==
    LET results == <<line>>
        next == NextUnit(r, outcome)
        r1 == [r EXCEPT !.results = results, !.running = 0, !.idx = next,
                        !.outcomes = Append(@, outcome)]
    IN  IF next > Len(r.units)
        THEN [run |-> [r1 EXCEPT !.pc = "done"], ret |-> Summary(r, results)]
        ELSE [run |-> r1, ret |-> [kind |-> "none"]]

\* one unit of either loop has ended: its line is appended and the loop
\* goes on, or the report is returned when no unit is left
UnitDone(r, outcome, line) ==
    LET results == Append(r.results, line)
        next == NextUnit(r, outcome)
        r1 == [r EXCEPT !.results = results, !.running = 0, !.idx = next,
                        !.outcomes = Append(@, outcome)]
    IN  IF next > Len(r.units)
        THEN [run |-> [r1 EXCEPT !.pc = "done"], ret |-> Summary(r, results)]
        ELSE [run |-> r1, ret |-> [kind |-> "none"]]

\* generate_xdelta up to its first subprocess, lines 678-691
XdeltaStart(d, sheet) ==
    [disk |-> EnsureDir(d, DeltaOutputDir),
     run |-> [IdleRun EXCEPT !.tool = "generate_xdelta", !.pc = "probe",
                             !.before = d,
                             !.probe = 1, !.sheet = sheet,
                             !.output_path = DeltaOutputDir]]

\* generate_xdelta after the version probe of a candidate, lines 693-725
XdeltaProbed(r, outcome, partition_files, source, target) ==
    LET exe_name == xdelta_candidates[r.probe]
        r1 == [r EXCEPT !.probed = outcome,
                        !.invoked =
                   Append(@, [exe |-> <<exe_name>>, verb |-> "-V", arg |-> <<>>,
                              unit |-> <<>>, out |-> <<>>])]
        partitions == SplitNames(partition_files)
        missing == MissingImages(partitions, r.sheet, source, target)
    IN  IF outcome = "oserror"
        THEN [run |-> [r1 EXCEPT !.pc = "done"], ret |-> [kind |-> "raised"]]
        ELSE IF outcome = "ok"
        THEN IF missing # <<>>
             THEN [run |-> [r1 EXCEPT !.pc = "done", !.exe = <<exe_name>>],
                   ret |-> [kind |-> "partition_files_missing",
                            missing |-> missing]]
             ELSE [run |-> [r1 EXCEPT !.pc = "loop", !.exe = <<exe_name>>,
                                      !.units = partitions, !.idx = 1],
                   ret |-> [kind |-> "none"]]
        ELSE IF r.probe = Len(xdelta_candidates)
        THEN [run |-> [r1 EXCEPT !.pc = "done"],
              ret |-> [kind |-> "exe_not_found"]]
        ELSE [run |-> [r1 EXCEPT !.probe = @ + 1], ret |-> [kind |-> "none"]]

----------------------------------------------------------------------------
(* Names used to build the bounded inputs                                  *)

gS == <<"S">>                   \* manifest group (sheet / folder) names
gV == <<"V">>
wrapDir == <<"w">>              \* a wrapper folder that is no manifest group
dotDir == <<".", "d">>          \* a hidden folder
fA == <<"f">>                   \* file names
fB == <<"g">>

GroupNames == {gS, gV}

PrefixClosed(tree) ==
    \A p \in tree.dirs \cup tree.files :
        Len(p) > 1 => SubSeq(p, 1, Len(p) - 1) \in tree.dirs

\* extracted archives as they come out of zipfile.extractall
ArchiveDirs ==
    {<<wrapDir>>, <<gS>>, <<gV>>, <<MACOSX>>, <<dotDir>>,
     <<wrapDir, gS>>, <<wrapDir, gV>>}
ArchiveFiles ==
    {<<fA>>, <<gS, fA>>, <<gV, fA>>, <<wrapDir, gS, fA>>, <<MACOSX, fB>>}

ExtractedArchives ==
    {t \in [dirs : SUBSET ArchiveDirs, files : SUBSET ArchiveFiles] : PrefixClosed(t)}

----------------------------------------------------------------------------
(* Bounded manifests                                                       *)

MaxRows == 2        \* data rows of a sheet, rows of the flat file

Fields ==
    <<"PartitionName", "PartitionType", "ImageType", "InPlace", "Sparse",
      "Partition_Filename">>

StructFields == SubSeq(Fields, 1, 5)

\* a header row holding one cell per field, named after it
HeaderOf(fields) == [i \in 1..Len(fields) |-> <<fields[i]>>]

\* one manifest record; an empty text is an empty cell
Rec(name, file) ==
    [PartitionName |-> name, PartitionType |-> <<>>, ImageType |-> <<>>,
     InPlace |-> <<>>, Sparse |-> <<>>, Partition_Filename |-> file,
     Folder |-> <<>>]

RowOf(fields, rec) == [i \in 1..Len(fields) |-> rec[fields[i]]]

\* a sheet: the header rows, then one row per record, laid out by `fields`
MkSheet(name, header_rows, fields, recs) ==
    [name |-> name,
     rows |-> header_rows \o [i \in 1..Len(recs) |-> RowOf(fields, recs[i])]]

Xlsx(sheets) == [sheets |-> sheets, header |-> <<>>, rows |-> <<>>, present |-> TRUE]

CsvFields == <<"Folder">> \o Fields

Csv(recs) ==
    [sheets |-> <<>>, header |-> CsvFields,
     rows |-> [i \in 1..Len(recs) |-> RowOf(CsvFields, recs[i])], present |-> TRUE]

NoManifest == [xlsx |-> NoFile, csv |-> NoFile, openpyxl |-> TRUE]

SeqsUpTo(S, n) == UNION {[1..k -> S] : k \in 0..n}

pA == <<"a">>                   \* partition names
pB == <<"b">>

\* the records of a sheet whose file cells are `cells`
FileRecs(cells) == [i \in 1..Len(cells) |-> Rec(IF i = 1 THEN pA ELSE pB, cells[i])]

FileCells == {<<>>, fA, fB, <<SP>> \o fA}

ValidationSheets(name, cellSet, n) ==
    {MkSheet(name, <<HeaderOf(Fields)>>, Fields, FileRecs(cells)) :
        cells \in SeqsUpTo(cellSet, n)}

\* a sheet with no Partition_Filename column
SheetWithoutFiles(name) ==
    MkSheet(name, <<HeaderOf(StructFields)>>, StructFields, <<Rec(pA, fA)>>)

\* a sheet whose file column header merely contains Partition_Filename
SheetWithLongHeader(name) ==
    MkSheet(name, <<Append(HeaderOf(StructFields), <<"Partition_Filename", "s">>)>>,
            Fields, <<Rec(pA, fA)>>)

ValidationXlsx ==
    {<<s>> : s \in ValidationSheets(gS, FileCells, MaxRows)
                   \cup {SheetWithoutFiles(gS), SheetWithLongHeader(gS)}}
    \cup {<<s, v>> : s \in ValidationSheets(gS, {fA, fB}, MaxRows),
                     v \in ValidationSheets(gV, {fA}, 1)}
    \cup {<<v, s>> : s \in ValidationSheets(gS, {fA, fB}, MaxRows),
                     v \in ValidationSheets(gV, {fA}, 1)}

CsvRec(folder, file) == [Rec(pA, file) EXCEPT !.Folder = folder]

CsvRowChoices ==
    {CsvRec(gS, fA), CsvRec(gS, fB), CsvRec(gV, fA), CsvRec(gS, <<>>),
     CsvRec(<<>>, fA), CsvRec(gS, fA \o <<SP>>)}

ValidationCsv == {Csv(recs) : recs \in SeqsUpTo(CsvRowChoices, MaxRows)}

SampleXlsx == Xlsx(<<MkSheet(gS, <<HeaderOf(Fields)>>, Fields, <<Rec(pA, fA)>>)>>)
SampleCsv == Csv(<<CsvRec(gV, fA)>>)

ValidationManifests ==
    {[xlsx |-> Xlsx(sheets), csv |-> NoFile, openpyxl |-> TRUE] :
        sheets \in ValidationXlsx}
    \cup {[xlsx |-> NoFile, csv |-> c, openpyxl |-> TRUE] : c \in ValidationCsv}
    \cup {[xlsx |-> SampleXlsx, csv |-> SampleCsv, openpyxl |-> TRUE],
          [xlsx |-> SampleXlsx, csv |-> SampleCsv, openpyxl |-> FALSE],
          [xlsx |-> SampleXlsx, csv |-> NoFile, openpyxl |-> FALSE],
          [xlsx |-> NoFile, csv |-> SampleCsv, openpyxl |-> FALSE],
          NoManifest}

\* extracted, normalized trees
TargetTrees ==
    {t \in [dirs : SUBSET {<<gS>>, <<gV>>},
            files : SUBSET {<<gS, fA>>, <<gS, fB>>, <<gV, fA>>}] : PrefixClosed(t)}

SourceTrees ==
    {t \in [dirs : SUBSET {<<gS>>, <<gV>>},
            files : SUBSET {<<gS, fA>>, <<gV, fA>>}] : PrefixClosed(t)}

----------------------------------------------------------------------------
(* Structural validation of the extracted trees                            *)

InitValidate ==
    /\ targetTree \in TargetTrees \cup {AbsentPath}
    /\ sourceTree \in SourceTrees \cup {NoPath, AbsentPath}
    /\ manifest \in ValidationManifests
    /\ disk = EmptyDisk
    /\ call = [op |-> "none"]
    /\ run = IdleRun
    /\ ret = [kind |-> "none"]

Validate ==
    /\ call.op = "none"
    /\ ret' = validate_target_folders_with_partition(targetTree, manifest, sourceTree)
    /\ call' = [op |-> "validate_target_folders_with_partition"]
    /\ UNCHANGED <<targetTree, sourceTree, manifest, disk, run>>

NextValidate == Validate

SpecValidate == InitValidate /\ [][NextValidate]_vars

----------------------------------------------------------------------------
(* What the manifest declares (spec section 3): groups and required files  *)

UsesXlsx(m) == m.xlsx.present /\ m.openpyxl
UsesCsv(m) == ~m.xlsx.present /\ m.csv.present
Readable(m) == UsesXlsx(m) \/ UsesCsv(m)

\* flat file rows that carry both a folder and a file name
CsvFileRows(c) ==
    SelectSeq(c.rows, LAMBDA row :
        /\ CsvFirst(row) # <<>>
        /\ Strip(CsvGet(c.header, row, "Partition_Filename", <<>>)) # <<>>)

ManifestGroups(m) ==
    IF UsesXlsx(m) THEN SeqToSet(SheetNames(m.xlsx.sheets))
    ELSE {CsvFirst(row) : row \in SeqToSet(CsvFileRows(m.csv))}

\* the required files of group g, in manifest order
RequiredFiles(m, g) ==
    IF UsesXlsx(m)
    THEN SheetFilenames(
             m.xlsx.sheets[CHOOSE i \in 1..Len(m.xlsx.sheets) : m.xlsx.sheets[i].name = g])
    ELSE LET rows == SelectSeq(CsvFileRows(m.csv), LAMBDA row : CsvFirst(row) = g)
         IN  [i \in 1..Len(rows) |->
                 Strip(CsvGet(m.csv.header, rows[i], "Partition_Filename", <<>>))]

Sides == IF sourceTree = NoPath THEN {"target"} ELSE {"target", "source"}

TreeOf(side) == IF side = "target" THEN targetTree ELSE sourceTree

AbsentGroups(side) ==
    {g \in ManifestGroups(manifest) : g \notin Subfolders(TreeOf(side))}

\* the required files of g that side lacks, in manifest order
ActuallyMissing(side, g) ==
    SelectSeq(RequiredFiles(manifest, g), LAMBDA f : ~Exists(TreeOf(side), <<g, f>>))

\* a validation call has returned for a readable manifest and existing trees
Validated ==
    /\ ret.kind \in {"success", "missing_folders", "missing_files"}
    /\ Readable(manifest)

\* C2: validation returns success exactly when, on the target and on the
\* source when supplied, every manifest group is a subfolder of the tree and
\* every required file of every group exists under its group folder
C2_SuccessIffComplete ==
    Validated =>
        (ret.kind = "success" <=>
            \A side \in Sides :
                /\ AbsentGroups(side) = {}
                /\ \A g \in ManifestGroups(manifest) : ActuallyMissing(side, g) = <<>>)

\* C2 witness: success over two groups with required files and a source tree
C2_Witness ==
    /\ Validated
    /\ ret.kind = "success"
    /\ sourceTree # NoPath
    /\ Cardinality(ManifestGroups(manifest)) = 2
    /\ \A g \in ManifestGroups(manifest) : RequiredFiles(manifest, g) # <<>>

\* C9: when the target tree lacks a manifest group, validation fails with the
\* missing-group message of the target side naming exactly the absent groups
C9_MissingGroupsNamed ==
    (Validated /\ AbsentGroups("target") # {}) =>
        /\ ret.kind = "missing_folders"
        /\ ret.side = "Target"
        /\ SeqToSet(ret.names) = AbsentGroups("target")

\* C10: with all groups present and some required file missing, the report
\* has exactly one entry per (side, group) with a missing file, and each
\* entry lists exactly that group's missing files of that side, in order
C10_EntriesPerSideGroup ==
    (/\ Validated
     /\ \A side \in Sides : AbsentGroups(side) = {}
     /\ \E side \in Sides : \E g \in ManifestGroups(manifest) :
            ActuallyMissing(side, g) # <<>>)
    => /\ ret.kind = "missing_files"
       /\ \A i \in 1..Len(ret.entries) :
            /\ ret.entries[i].key.side \in Sides
            /\ ret.entries[i].key.group \in ManifestGroups(manifest)
            /\ ret.entries[i].files # <<>>
            /\ ret.entries[i].files =
                   ActuallyMissing(ret.entries[i].key.side, ret.entries[i].key.group)
            /\ \A j \in 1..Len(ret.entries) :
                   ret.entries[j].key = ret.entries[i].key => j = i
       /\ \A side \in Sides : \A g \in ManifestGroups(manifest) :
            ActuallyMissing(side, g) # <<>> =>
                \E i \in 1..Len(ret.entries) : ret.entries[i].key = Key(side, g)

\* C10 witness: two files of one group missing on the target, one on the source
C10_Witness ==
    /\ Validated
    /\ \A side \in Sides : AbsentGroups(side) = {}
    /\ ret.kind = "missing_files"
    /\ Len(ret.entries) = 2
    /\ \E i \in 1..2 : Len(ret.entries[i].files) = 2
    /\ \E i \in 1..2 : ret.entries[i].key.side = "source"

\* the side whose group-presence failure is reported: target before source
FirstSideLacking ==
    IF AbsentGroups("target") # {} THEN "Target" ELSE "Source"

\* C11: when a manifest group is absent on the target, or on the supplied
\* source, validation returns the missing-group failure of that side, no
\* file-presence check was made on either side, and the result holds no
\* missing-file entries; for both manifest formats
C11_ShortCircuitOnGroups ==
    (Validated /\ \E side \in Sides : AbsentGroups(side) # {}) =>
        /\ ret.kind = "missing_folders"
        /\ ret.side = FirstSideLacking
        /\ ret.checks = 0

----------------------------------------------------------------------------
(* The validation report of long file lists                                *)

MaxListed == 7      \* files listed for one group

ListedFile(i) == <<"f", ToString(i)>>

ListedRecs(n) == [i \in 1..n |-> [Rec(pA, ListedFile(i)) EXCEPT !.Folder = gS]]

ListedManifests ==
    {[xlsx |-> Xlsx(<<MkSheet(gS, <<HeaderOf(Fields)>>, Fields, ListedRecs(n))>>),
      csv |-> NoFile, openpyxl |-> TRUE] : n \in 0..MaxListed}
    \cup {[xlsx |-> NoFile, csv |-> Csv(ListedRecs(n)), openpyxl |-> TRUE] :
            n \in 0..MaxListed}

ListedTrees ==
    {[dirs |-> {<<gS>>}, files |-> {<<gS, ListedFile(i)>> : i \in present}] :
        present \in SUBSET (1..MaxListed)}

InitReport ==
    /\ targetTree \in ListedTrees
    /\ sourceTree \in {NoPath, [dirs |-> {<<gS>>}, files |-> {<<gS, ListedFile(1)>>}]}
    /\ manifest \in ListedManifests
    /\ disk = EmptyDisk
    /\ call = [op |-> "none"]
    /\ run = IdleRun
    /\ ret = [kind |-> "none"]

NextReport == Validate

SpecReport == InitReport /\ [][NextReport]_vars

----------------------------------------------------------------------------
(* Building and re-reading config artifacts                                *)

SRC == <<"src">>                \* source_path
TGT == <<"tgt">>                \* target_path
DeltaName == <<"source_target.mld">>

ampName == <<"a", "&">>         \* the partition name a&

NameCells == {<<>>, pA, pB, pA \o <<SP>>, ampName}

NameRecs(cells) == [i \in 1..Len(cells) |-> Rec(cells[i], fA)]

ConfigSheets(name, cellSet, n) ==
    {MkSheet(name, <<HeaderOf(Fields)>>, Fields, NameRecs(cells)) :
        cells \in SeqsUpTo(cellSet, n)}

\* a sheet lacking the Sparse column
SheetWithoutSparse(name) ==
    MkSheet(name, <<HeaderOf(SubSeq(Fields, 1, 4))>>, SubSeq(Fields, 1, 4),
            <<Rec(pA, fA)>>)

\* a sheet with a title row above its header row
SheetWithTitle(name) ==
    MkSheet(name, <<[i \in 1..Len(Fields) |-> IF i = 1 THEN <<"Partitions">> ELSE <<>>],
                    HeaderOf(Fields)>>,
            Fields, <<Rec(pB, fA), Rec(pA, fA)>>)

\* a sheet whose first row holds one required header cell, as a caption, and
\* whose second row is the header row proper
SheetWithSplitHeader(name) ==
    MkSheet(name, <<[i \in 1..Len(Fields) |->
                        IF i = 1 THEN <<"PartitionName">> ELSE <<>>],
                    HeaderOf(Fields)>>,
            Fields, <<Rec(pA, fA)>>)

ConfigXlsx ==
    {<<s>> : s \in ConfigSheets(gS, NameCells, MaxRows)
                   \cup {SheetWithoutSparse(gS), SheetWithTitle(gS),
                         SheetWithSplitHeader(gS)}}
    \cup {<<s, v>> : s \in ConfigSheets(gS, {pA, pB}, MaxRows),
                     v \in ConfigSheets(gV, {pB}, 1) \cup {SheetWithoutSparse(gV)}}
    \cup {<<v, s>> : s \in ConfigSheets(gS, {pA, pB}, 1),
                     v \in ConfigSheets(gV, {pB}, 1)}

CsvNameRec(folder, name) == [Rec(name, fA) EXCEPT !.Folder = folder]

CsvNameChoices ==
    {CsvNameRec(gS, pA), CsvNameRec(gV, pB), CsvNameRec(<<>>, pA),
     CsvNameRec(gS, <<SP>>)}

\* a flat file with a full row and a row that stops after `cells`
ShortRowCsv(cells) ==
    [Csv(<<CsvNameRec(gS, pA)>>) EXCEPT !.rows = Append(@, cells)]

ConfigCsv ==
    {Csv(recs) : recs \in SeqsUpTo(CsvNameChoices, MaxRows)}
    \cup {ShortRowCsv(<<gS>>), ShortRowCsv(<<gS, pB>>)}

BothManifests == [xlsx |-> SampleXlsx, csv |-> SampleCsv, openpyxl |-> TRUE]

ConfigManifests ==
    {[xlsx |-> Xlsx(sheets), csv |-> NoFile, openpyxl |-> TRUE] : sheets \in ConfigXlsx}
    \cup {[xlsx |-> NoFile, csv |-> c, openpyxl |-> TRUE] : c \in ConfigCsv}
    \cup {BothManifests,
          [xlsx |-> SampleXlsx, csv |-> NoFile, openpyxl |-> FALSE],
          NoManifest}

SheetArgs == {NoneArg, gS, gV, <<"X">>}

\* a spreadsheet whose only sheet fails column discovery
UnreadableSheetManifest ==
    [xlsx |-> Xlsx(<<SheetWithoutSparse(gS)>>), csv |-> NoFile, openpyxl |-> TRUE]

\* an explicit output location is tried with two manifests only
OutputArgs(m) ==
    IF m = BothManifests \/ m = UnreadableSheetManifest
    THEN {NoneArg, <<"out", "/", "job", ".xml">>, <<"out">>}
    ELSE {NoneArg}

InitConfig ==
    /\ targetTree = NoPath
    /\ sourceTree = NoPath
    /\ manifest \in ConfigManifests
    /\ disk = EmptyDisk
    /\ call = [op |-> "none"]
    /\ run = IdleRun
    /\ ret = [kind |-> "none"]

GenerateConfig ==
    \E partition_sheet \in SheetArgs, output_path \in OutputArgs(manifest) :
        LET r == generate_config_xml(manifest, SRC, TGT, DeltaName, output_path,
                                     partition_sheet, disk)
        IN  /\ ret' = r.ret
            /\ disk' = r.disk
            /\ call' = [op |-> "generate_config_xml",
                        partition_sheet |-> partition_sheet,
                        output_path |-> output_path]
            /\ UNCHANGED <<targetTree, sourceTree, manifest, run>>

ParseConfig ==
    \E config_file_path \in DOMAIN disk.files \cup {PathJoin(CWD, <<"config", ".xml">>)} :
        /\ ret' = parse_config_xml(disk, config_file_path)
        /\ call' = [op |-> "parse_config_xml", path |-> config_file_path]
        /\ UNCHANGED <<targetTree, sourceTree, manifest, disk, run>>

NextConfig == GenerateConfig \/ ParseConfig

SpecConfig == InitConfig /\ [][NextConfig]_vars

----------------------------------------------------------------------------
(* What the manifest declares for the job builder: groups and their units  *)

\* flat file rows that carry both a folder and a partition name
CsvUnitRows(c) ==
    SelectSeq(c.rows, LAMBDA row :
        /\ Strip(CsvFirst(row)) # <<>>
        /\ Strip(CsvGet(c.header, row, "PartitionName", <<>>)) # <<>>)

ConfigGroups(m) ==
    IF UsesXlsx(m) THEN SeqToSet(SheetNames(m.xlsx.sheets))
    ELSE IF UsesCsv(m)
    THEN {Strip(CsvFirst(row)) : row \in SeqToSet(CsvUnitRows(m.csv))}
    ELSE {}

\* the job units of group g, in manifest order
GroupUnits(m, g) ==
    IF UsesXlsx(m)
    THEN XlsxPartitions(SelectSeq(m.xlsx.sheets, LAMBDA sh : sh.name = g),
                        SRC, TGT, CWD)
    ELSE LET rows == SelectSeq(CsvUnitRows(m.csv),
                               LAMBDA row : Strip(CsvFirst(row)) = g)
         IN  [i \in 1..Len(rows) |->
                 CsvPartition(m.csv.header, rows[i], SRC, TGT, CWD)]

UnitNames(units) == [i \in 1..Len(units) |-> units[i].PartitionName]

\* every group of the manifest parses into at least one job unit
AllGroupsParse(m) ==
    /\ ConfigGroups(m) # {}
    /\ \A g \in ConfigGroups(m) : GroupUnits(m, g) # <<>>

ConfigName(g) == PathJoin(CWD, <<"config_">> \o g \o <<".xml">>)

\* C1: without a selected group, a manifest of either format with more than
\* one group gets the group-selection list and no artifact is written; a
\* manifest with exactly one group gets its descriptor built and written
C1_PromptIffManyGroups ==
    [][(/\ call'.op = "generate_config_xml"
        /\ call'.partition_sheet = NoneArg
        /\ AllGroupsParse(manifest))
       => IF Cardinality(ConfigGroups(manifest)) > 1
          THEN /\ ret'.kind = "select_sheet"
               /\ SeqToSet(ret'.names) = ConfigGroups(manifest)
               /\ disk' = disk
          ELSE /\ ret'.kind = "generated"
               /\ ret'.path \in DOMAIN disk'.files
               /\ \A g \in ConfigGroups(manifest) :
                      disk'.files[ret'.path] = ConfigXml(GroupUnits(manifest, g), DeltaName)
      ]_vars

\* C3: the artifact written for a group, re-read, yields that group's
\* partition names, same length, same names, same positions
C3_RoundTrip ==
    \A g \in ConfigGroups(manifest) :
        (/\ call.op = "parse_config_xml"
         /\ call.path \in DOMAIN disk.files
         /\ \/ call.path = ConfigName(g)
            \/ /\ call.path = PathJoin(CWD, <<"config", ".xml">>)
               /\ ConfigGroups(manifest) = {g})
        => /\ ret.kind = "names"
           /\ SplitOn(ret.text, ",", <<>>) = UnitNames(GroupUnits(manifest, g))

\* a build has written a descriptor for the selected group `g`
BuiltFor(g) ==
    /\ call.op = "generate_config_xml"
    /\ call.partition_sheet = g
    /\ ret.kind = "generated"

\* C13: the descriptor built for a selected group holds one job unit per
\* partition record of that group, in order, and no unit of another group;
\* the image paths of each unit are <sourceRoot>/<group>/<name>.img and
\* <targetRoot>/<group>/<name>.img; for both manifest formats
C13_SelectedGroupUnits ==
    \A g \in ConfigGroups(manifest) :
        BuiltFor(g) =>
            LET units == GroupUnits(manifest, g) IN
            /\ ret.count = Len(units)
            /\ disk.files[ret.path] = ConfigXml(units, DeltaName)
            /\ \A i \in 1..Len(units) :
                /\ units[i].SourceVersion = ImagePath(SRC, g, units[i].PartitionName)
                /\ units[i].TargetVersion = ImagePath(TGT, g, units[i].PartitionName)

\* what a build with the default output location writes for selection `g`
DescriptorFor(g) ==
    LET r == generate_config_xml(manifest, SRC, TGT, DeltaName, NoneArg, g, EmptyDisk)
    IN  r.disk.files[r.ret.path]

DefaultName(partition_sheet) ==
    IF partition_sheet = NoneArg THEN PathJoin(CWD, <<"config", ".xml">>)
    ELSE ConfigName(partition_sheet)

\* a build with the default output location has written its descriptor
DefaultBuild ==
    /\ call'.op = "generate_config_xml"
    /\ call'.output_path = NoneArg
    /\ ret'.kind = "generated"

\* C14: with the default output location a build writes config.xml when no
\* group is selected and config_<group>.xml when one is, and leaves every
\* other file as it was; so every config_<group>.xml in the working
\* directory holds the descriptor built for that group, whatever was built
\* afterwards
C14_ArtifactsCoexist ==
    /\ [][DefaultBuild =>
            /\ ret'.path = DefaultName(call'.partition_sheet)
            /\ ret'.path \in DOMAIN disk'.files
            /\ \A p \in DOMAIN disk.files :
                p # ret'.path =>
                    p \in DOMAIN disk'.files /\ disk'.files[p] = disk.files[p]
         ]_vars
    /\ [](\A g \in SheetArgs \ {NoneArg} :
            ConfigName(g) \in DOMAIN disk.files =>
                disk.files[ConfigName(g)] = DescriptorFor(g))

\* two groups built one after the other, both artifacts in place
C14_Witness ==
    /\ UsesXlsx(manifest)
    /\ BuiltFor(gV)
    /\ ConfigName(gS) \in DOMAIN disk.files
    /\ ConfigName(gV) \in DOMAIN disk.files
    /\ disk.files[ConfigName(gS)] = DescriptorFor(gS)
    /\ disk.files[ConfigName(gS)] # disk.files[ConfigName(gV)]

\* the job units a call with selection `sheet` collects
CollectedUnits(m, sheet) ==
    IF UsesXlsx(m)
    THEN XlsxPartitions(
             IF sheet = NoneArg THEN m.xlsx.sheets
             ELSE SelectSeq(m.xlsx.sheets, LAMBDA sh : sh.name = sheet),
             SRC, TGT, CWD)
    ELSE CsvPartitions(m.csv, SRC, TGT, CWD)

\* the call got as far as collecting job units
Collected(kind) == kind \in {"no_partitions", "generated"}

\* C15: a generate_config_xml call that collected zero job units returns the
\* empty-manifest error and leaves the working directory as it was, and any
\* other collecting call writes a descriptor; no descriptor in the working
\* directory is without a Partition block
C15_EmptyManifestError ==
    /\ [][(call'.op = "generate_config_xml" /\ Collected(ret'.kind)) =>
            IF CollectedUnits(manifest, call'.partition_sheet) = <<>>
            THEN ret'.kind = "no_partitions" /\ disk' = disk
            ELSE ret'.kind = "generated"
         ]_vars
    /\ [](\A p \in DOMAIN disk.files : Contains(disk.files[p], Open("Partition")))

\* the only sheet fails column discovery, an output folder was asked for,
\* and nothing was created
C15_Witness ==
    /\ call.op = "generate_config_xml"
    /\ manifest = UnreadableSheetManifest
    /\ call.output_path = <<"out">>
    /\ ret.kind = "no_partitions"
    /\ disk = EmptyDisk

IsHeaderCell(cell) == cell # <<>> /\ \E k \in SeqToSet(required_cols) : Strip(cell) = <<k>>

\* the rows of the scan window that hold a required header cell
HeaderCellRows(sheet) ==
    {r \in 1..Min(Len(sheet.rows), HeaderScanRows) :
        \E c \in 1..Len(sheet.rows[r]) : IsHeaderCell(sheet.rows[r][c])}

\* all five required header cells are within the scan window
HasAllHeaders(sheet) ==
    \A k \in SeqToSet(required_cols) :
        \E r \in 1..Min(Len(sheet.rows), HeaderScanRows) :
            \E c \in 1..Len(sheet.rows[r]) :
                sheet.rows[r][c] # <<>> /\ Strip(sheet.rows[r][c]) = <<k>>

\* the rows below the header cells
RowsBelowHeaders(sheet) ==
    LET last == CHOOSE r \in HeaderCellRows(sheet) :
                    \A q \in HeaderCellRows(sheet) : q <= r
    IN  SubSeq(sheet.rows, last + 1, Len(sheet.rows))

\* the sheets a spreadsheet call with selection `sheet` reads
ProcessedSheets(m, sheet) ==
    IF sheet = NoneArg THEN m.xlsx.sheets
    ELSE SelectSeq(m.xlsx.sheets, LAMBDA sh : sh.name = sheet)

\* C23: a sheet without all five required header cells in its first ten
\* rows contributes no job unit; a sheet with them contributes at most one
\* unit per row below its header cells, and no unit read from a row that
\* holds a required header cell
C23_HeaderRowsAreNotRecords ==
    (call.op = "generate_config_xml" /\ UsesXlsx(manifest) /\ Collected(ret.kind)) =>
        \A i \in 1..Len(ProcessedSheets(manifest, call.partition_sheet)) :
            LET sheet == ProcessedSheets(manifest, call.partition_sheet)[i]
                units == XlsxSheetPartitions(sheet, SRC, TGT, CWD)
            IN  IF ~HasAllHeaders(sheet) THEN units = <<>>
                ELSE /\ Len(units) <= Len(RowsBelowHeaders(sheet))
                     /\ \A j \in 1..Len(units) :
                            ~IsHeaderCell(units[j].PartitionName)

----------------------------------------------------------------------------
(* The cells a job-building call reads, record by record                   *)

\* a cell without a value: not there, empty, or white space only
Blank(cell) == cell = NoneArg \/ Strip(cell) = <<>>

\* the cells of one sheet's records: the rows from which the call reads
\* records, each by the columns the call found
SheetCells(sheet) ==
    LET h == ScanHeader([cols |-> NoCols, header_row |-> 0], sheet.rows, 1) IN
    IF ~AllColsFound(h.cols) THEN <<>>
    ELSE LET below == SubSeq(sheet.rows, h.header_row + 1, Len(sheet.rows))
         IN  [i \in 1..Len(below) |->
                 [k \in SeqToSet(required_cols) \cup {"Folder"} |->
                     IF k = "Folder" THEN sheet.name ELSE below[i][h.cols[k]]]]

RECURSIVE SheetsCells(_)
SheetsCells(sheets) ==
    IF sheets = <<>> THEN <<>>
    ELSE SheetCells(Head(sheets)) \o SheetsCells(Tail(sheets))

\* the cells of the flat file's records; a column the header does not have
\* and a column a short row does not reach are cells that are not there
CsvCells(c) ==
    [i \in 1..Len(c.rows) |->
        [k \in SeqToSet(required_cols) \cup {"Folder"} |->
            IF k = "Folder" THEN CsvFirst(c.rows[i])
            ELSE CsvGet(c.header, c.rows[i], k, NoneArg)]]

ReadCells(m, sheet) ==
    IF UsesXlsx(m) THEN SheetsCells(ProcessedSheets(m, sheet)) ELSE CsvCells(m.csv)

\* the records with a name (and, being needed for the image paths, a folder)
KeptCells(m, sheet) ==
    SelectSeq(ReadCells(m, sheet),
              LAMBDA rec : ~Blank(rec["PartitionName"]) /\ ~Blank(rec["Folder"]))

\* the call got as far as reading records
ReadsRecords(kind) ==
    kind \notin {"select_sheet", "sheet_not_found", "openpyxl_missing",
                 "manifest_not_found"}

\* C24: a generate_config_xml call that reads the manifest's records
\* discards every record whose name is absent, empty or white space only
\* and keeps the others in order: it returns the empty-manifest error when
\* none is left, and otherwise writes a descriptor whose job units carry
\* exactly the stripped, non-empty names of the records kept, in their order
C24_NamedRowsOnly ==
    (call.op = "generate_config_xml" /\ ReadsRecords(ret.kind)) =>
        LET kept == KeptCells(manifest, call.partition_sheet)
            units == CollectedUnits(manifest, call.partition_sheet)
        IN  /\ Collected(ret.kind)
            /\ ret.kind = "no_partitions" <=> kept = <<>>
            /\ ret.kind = "generated" =>
                   /\ ret.count = Len(kept)
                   /\ Len(units) = Len(kept)
                   /\ \A i \in 1..Len(kept) :
                          /\ units[i].PartitionName # <<>>
                          /\ units[i].PartitionName = Strip(kept[i]["PartitionName"])
                   /\ disk.files[ret.path] = ConfigXml(units, DeltaName)

default_values ==
    [PartitionType |-> <<"PT_FS_IMAGE">>, ImageType |-> <<"ext4">>,
     InPlace |-> <<"0">>, Sparse |-> <<"1">>]

\* C25: in the descriptor a generate_config_xml call writes, each of the
\* four fields PartitionType, ImageType, InPlace, Sparse of a job unit holds
\* the default when the record's cell is absent or empty and the stripped
\* cell otherwise, and no unit holds an empty value for any of them
C25_DefaultsFill ==
    (call.op = "generate_config_xml" /\ ret.kind = "generated") =>
        LET kept == KeptCells(manifest, call.partition_sheet)
            units == CollectedUnits(manifest, call.partition_sheet)
        IN  /\ disk.files[ret.path] = ConfigXml(units, DeltaName)
            /\ Len(units) = Len(kept)
            /\ \A i \in 1..Len(units) : \A k \in DOMAIN default_values :
                   /\ units[i][k] # <<>>
                   /\ units[i][k] = IF Blank(kept[i][k]) THEN default_values[k]
                                    ELSE Strip(kept[i][k])

----------------------------------------------------------------------------
(* Which manifest file is read: validation and job building on the same    *)
(* working directories                                                     *)

TwoSheetXlsx ==
    Xlsx(<<MkSheet(gS, <<HeaderOf(Fields)>>, Fields, <<Rec(pA, fA)>>),
           MkSheet(gV, <<HeaderOf(Fields)>>, Fields, <<Rec(pB, fA)>>)>>)

SelectionManifests ==
    [xlsx : {NoFile, SampleXlsx, TwoSheetXlsx},
     csv : {NoFile, SampleCsv, Csv(<<CsvRec(gS, fB)>>)},
     openpyxl : BOOLEAN]

InitSelect ==
    /\ targetTree \in {t \in TargetTrees : <<gS, fB>> \notin t.files}
    /\ sourceTree \in {NoPath, [dirs |-> {<<gS>>}, files |-> {<<gS, fA>>}]}
    /\ manifest \in SelectionManifests
    /\ disk = EmptyDisk
    /\ call = [op |-> "none"]
    /\ run = IdleRun
    /\ ret = [kind |-> "none"]

NextSelect == Validate \/ GenerateConfig

SpecSelect == InitSelect /\ [][NextSelect]_vars

\* what the last call returns when the manifest files are `m`
ResultWith(m) ==
    IF call.op = "validate_target_folders_with_partition"
    THEN validate_target_folders_with_partition(targetTree, m, sourceTree)
    ELSE generate_config_xml(m, SRC, TGT, DeltaName, call.output_path,
                             call.partition_sheet, EmptyDisk).ret

\* C16: in validate_target_folders_with_partition and in generate_config_xml
\* alike, an existing spreadsheet whose reader is available decides the
\* result and the flat file is not consulted; the flat file decides when only
\* it exists; the manifest-not-found error is returned exactly when neither
\* exists; the error of the unavailable reader is returned exactly when the
\* spreadsheet exists and the reader is unavailable
C16_ManifestSelection ==
    call.op \in {"validate_target_folders_with_partition", "generate_config_xml"} =>
        /\ ret.kind = "manifest_not_found"
               <=> (~manifest.xlsx.present /\ ~manifest.csv.present)
        /\ ret.kind = "openpyxl_missing"
               <=> (manifest.xlsx.present /\ ~manifest.openpyxl)
        /\ (manifest.xlsx.present /\ manifest.openpyxl) =>
               \A c \in {NoFile, SampleCsv} :
                   ret = ResultWith([manifest EXCEPT !.csv = c])
        /\ (~manifest.xlsx.present /\ manifest.csv.present) =>
               ret = ResultWith([manifest EXCEPT !.openpyxl = ~@])

\* both files exist and the validation result is the spreadsheet's, which
\* differs from what the flat file alone gives
C16_Witness ==
    /\ call.op = "validate_target_folders_with_partition"
    /\ manifest.xlsx.present /\ manifest.csv.present /\ manifest.openpyxl
    /\ ret.kind = "success"
    /\ ResultWith([manifest EXCEPT !.xlsx = NoFile]).kind = "missing_files"

----------------------------------------------------------------------------
(* Normalization of the extracted target archive (untar_zip_files)         *)

InitFlatten ==
    /\ targetTree \in ExtractedArchives
    /\ sourceTree = NoPath
    /\ manifest = NoManifest
    /\ disk = EmptyDisk
    /\ call = [op |-> "none"]
    /\ run = IdleRun
    /\ ret = [kind |-> "none"]

Flatten ==
    /\ targetTree' = flatten_extracted_folder(targetTree)
    /\ ret' = [kind |-> "path"]
    /\ call' = [op |-> "flatten_extracted_folder"]
    /\ UNCHANGED <<sourceTree, manifest, disk, run>>

NextFlatten == Flatten

SpecFlatten == InitFlatten /\ [][NextFlatten]_vars

\* the top level is the payload itself: every meaningful folder is a manifest
\* group folder, and there is at least one
AlreadyFlat(tree) ==
    /\ MeaningfulSubfolders(tree) # {}
    /\ MeaningfulSubfolders(tree) \subseteq GroupNames

\* C4: normalizing an already-flat extracted archive leaves its directory
\* and file entries unchanged, whatever the number of group folders
C4_FlattenIdempotentOnFlat ==
    [][AlreadyFlat(targetTree) => targetTree' = targetTree]_vars

\* the wrapper folder whose content normalization hoists, if there is one
HoistedWrapper(tree) ==
    IF Cardinality(MeaningfulSubfolders(tree)) = 1
    THEN MeaningfulSubfolders(tree) ELSE {}

\* C19: normalization deletes nothing: every top-level entry other than the
\* hoisted wrapper folder (system-artifact folders, dot-folders, top-level
\* files) is a top-level entry afterwards, and so is every entry of the
\* wrapper folder
C19_FlattenKeepsContent ==
    [][/\ \A e \in TopEntries(targetTree) :
            e[1] \notin HoistedWrapper(targetTree) => e \in TopEntries(targetTree')
       /\ \A w \in HoistedWrapper(targetTree) :
            \A p \in targetTree.dirs \cup targetTree.files :
                (Len(p) = 2 /\ p[1] = w) => <<p[2]>> \in TopEntries(targetTree')
      ]_vars

----------------------------------------------------------------------------
(* The delta runs: generate_delta and generate_xdelta, called again and    *)
(* again on one working directory                                          *)

MaxUnits == 2       \* units of one request

ImageTree(partitions) ==
    [dirs |-> {<<gS>>}, files |-> {<<gS, ImageFile(p)>> : p \in partitions}]

ConfigFile(g) == <<"config_">> \o g \o <<".xml">>

DeltaDisk(with_exe, groups) ==
    [files |-> [p \in {PathJoin(CWD, ConfigFile(g)) : g \in groups}
                      \cup (IF with_exe THEN {PathJoin(CWD, redbend_exe)} ELSE {})
                  |-> <<"x">>],
     dirs |-> {CWD}]

\* the requests: names joined by commas, one of them with a space after the
\* comma
Requests(names) ==
    {JoinWith(q, ",") : q \in SeqsUpTo(names, MaxUnits) \ {<<>>}}
    \cup {q[1] \o <<",", SP>> \o q[2] : q \in {x \in names \X names : x[1] # x[2]}}

PartitionRequests == Requests({pA, pB})

ConfigRequests == Requests({ConfigFile(gS), ConfigFile(gV)})

InitDelta ==
    /\ \/ /\ targetTree \in {ImageTree({pA, pB}), ImageTree({pA})}
          /\ sourceTree \in {ImageTree({pA, pB}), ImageTree({pA}), ImageTree({})}
          /\ disk = DeltaDisk(TRUE, {gS, gV})
       \/ /\ targetTree = ImageTree({pA, pB})
          /\ sourceTree = ImageTree({pA, pB})
          /\ disk \in {DeltaDisk(TRUE, {gS}), DeltaDisk(TRUE, {}),
                      DeltaDisk(FALSE, {gS, gV}), DeltaDisk(FALSE, {gS})}
    /\ manifest = NoManifest
    /\ call = [op |-> "none"]
    /\ run = IdleRun
    /\ ret = [kind |-> "none"]

Idle == run.pc \in {"idle", "done"}

\* generate_delta(config_file_names) is called
DeltaCall ==
    /\ Idle
    /\ \E config_file_names \in ConfigRequests :
        LET r == DeltaStart(disk, config_file_names)
        IN  /\ disk' = r.disk
            /\ run' = r.run
            /\ ret' = r.ret
            /\ call' = [op |-> "generate_delta", names |-> config_file_names,
                        sheet |-> <<>>]
    /\ UNCHANGED <<targetTree, sourceTree, manifest>>

\* subprocess.run of the proprietary differ starts for the current config
DeltaInvoke ==
    /\ run.tool = "generate_delta" /\ run.pc = "loop" /\ run.running = 0
    /\ run' = [run EXCEPT !.running = run.idx,
                          !.invoked = Append(@, RedbendCommand(run.units[run.idx]))]
    /\ UNCHANGED <<targetTree, sourceTree, manifest, disk, call, ret>>

\* ... and ends
DeltaComplete ==
    /\ run.tool = "generate_delta" /\ run.pc = "loop" /\ run.running # 0
    /\ \E outcome \in {o \in UnitOutcomes : ~o.wrote} :
        LET r == UnitDone(run, outcome,
                          RedbendResult(run.units[run.idx], outcome))
        IN  /\ run' = r.run
            /\ ret' = r.ret
    /\ UNCHANGED <<targetTree, sourceTree, manifest, disk, call>>

\* generate_xdelta(partition_files, source, target, partition_sheet) is called
XdeltaCall ==
    /\ Idle
    /\ \E partition_files \in PartitionRequests :
        LET r == XdeltaStart(disk, gS)
        IN  /\ disk' = r.disk
            /\ run' = r.run
            /\ ret' = [kind |-> "none"]
            /\ call' = [op |-> "generate_xdelta", names |-> partition_files,
                        sheet |-> gS]
    /\ UNCHANGED <<targetTree, sourceTree, manifest>>

\* the version probe of the current candidate runs and ends
XdeltaProbe ==
    /\ run.tool = "generate_xdelta" /\ run.pc = "probe"
    /\ \E outcome \in ProbeOutcomes :
        LET r == XdeltaProbed(run, outcome, call.names, sourceTree, targetTree)
        IN  /\ run' = r.run
            /\ ret' = r.ret
    /\ UNCHANGED <<targetTree, sourceTree, manifest, disk, call>>

\* subprocess.run of the encoder starts for the current partition
XdeltaInvoke ==
    /\ run.tool = "generate_xdelta" /\ run.pc = "loop" /\ run.running = 0
    /\ run' = [run EXCEPT !.running = run.idx,
                          !.invoked = Append(@, XdeltaCommand(run.exe, run.sheet,
                                                 run.units[run.idx], run.output_path))]
    /\ UNCHANGED <<targetTree, sourceTree, manifest, disk, call, ret>>

\* ... and ends, having written the delta file or not
XdeltaComplete ==
    /\ run.tool = "generate_xdelta" /\ run.pc = "loop" /\ run.running # 0
    /\ \E outcome \in UnitOutcomes :
        LET partition == run.units[run.idx]
            delta_file == DeltaFile(run.output_path, partition)
            d1 == IF outcome.wrote THEN WriteFile(disk, delta_file, <<"delta">>)
                  ELSE disk
            r == UnitDone(run, outcome,
                          XdeltaResult(partition, outcome, OnDisk(d1, delta_file)))
        IN  /\ disk' = d1
            /\ run' = r.run
            /\ ret' = r.ret
    /\ UNCHANGED <<targetTree, sourceTree, manifest, call>>

NextDelta ==
    \/ DeltaCall
    \/ DeltaInvoke
    \/ DeltaComplete
    \/ XdeltaCall
    \/ XdeltaProbe
    \/ XdeltaInvoke
    \/ XdeltaComplete

SpecDelta == InitDelta /\ [][NextDelta]_vars

\* the subprocesses started for units, the version probes left out
UnitInvocations == SelectSeq(run.invoked, LAMBDA c : c.verb # "-V")

Requested == SplitNames(call.names)

Returned == run.pc = "done"

AFailure(o) == o.kind \in {"timeout", "exception"} \/ (o.kind = "exit" /\ o.code # 0)

\* C5: in generate_delta and generate_xdelta, once the loop over the units has
\* started, the call returns the report and nothing else, whatever happened
\* to a unit: the report holds one outcome per requested unit in request
\* order, and one subprocess was started per requested unit in request order.
C5_BatchCompletes ==
    /\ run.pc = "loop" => ret.kind = "none"
    /\ (Returned /\ UnitInvocations # <<>>) =>
        /\ ret.kind = "summary"
        /\ ret.count = Len(Requested)
        /\ Len(ret.results) = Len(Requested)
        /\ \A i \in 1..Len(Requested) : ret.results[i].unit = Requested[i]
        /\ Len(UnitInvocations) = Len(Requested)
        /\ \A i \in 1..Len(Requested) : UnitInvocations[i].unit = Requested[i]

\* a two-partition batch whose first unit timed out and whose second
\* unit was still run and reported
C5_Witness ==
    /\ Returned /\ ret.kind = "summary" /\ call.op = "generate_xdelta"
    /\ Len(Requested) = 2
    /\ run.outcomes[1].kind = "timeout"
    /\ run.outcomes[2].kind = "exit" /\ run.outcomes[2].code = 0
    /\ ~ret.results[1].ok /\ ret.results[2].ok
    /\ Len(UnitInvocations) = 2

\* the images the request needs that are not in the trees
AbsentImages ==
    {c \in [side : {"source", "target"}, sheet : {call.sheet},
            partition : SeqToSet(Requested)] :
        ~Exists(IF c.side = "source" THEN sourceTree ELSE targetTree,
                <<c.sheet, ImageFile(c.partition)>>)}

XdeltaReturned == call.op = "generate_xdelta" /\ Returned

DeltaReturned == call.op = "generate_delta" /\ Returned /\ ret.kind = "summary"

\* C7: in generate_delta every config file whose subprocess ended with an exit
\* code, zero or not, is reported as a success.
C7_ExitCodeIgnored ==
    DeltaReturned =>
        \A i \in 1..Len(ret.results) :
            run.outcomes[i].kind = "exit" => ret.results[i].ok

\* two config files, exit codes zero and non-zero, two successes
C7_Witness ==
    /\ DeltaReturned
    /\ Len(ret.results) = 2
    /\ run.outcomes[1] = [kind |-> "exit", code |-> 0, wrote |-> FALSE]
    /\ run.outcomes[2] = [kind |-> "exit", code |-> 1, wrote |-> FALSE]
    /\ \A i \in 1..2 : ret.results[i].ok

\* C8: in generate_xdelta a partition is reported as a success exactly when
\* its subprocess exited with code zero and wrote the delta file.
C8_SuccessIffWritten ==
    (XdeltaReturned /\ ret.kind = "summary") =>
        \A i \in 1..Len(ret.results) :
            ret.results[i].ok <=>
                /\ run.outcomes[i].kind = "exit"
                /\ run.outcomes[i].code = 0
                /\ run.outcomes[i].wrote

RedbendThere == OnDisk(disk, PathJoin(CWD, redbend_exe))

\* the requested config files that are not in the working directory
AbsentConfigs ==
    {f \in SeqToSet(Requested) : ~OnDisk(disk, PathJoin(CWD, f))}

\* C12: generate_delta returns the executable-not-found error when the
\* executable is absent from the working directory; with the executable
\* there and a named config file absent it returns the error naming exactly
\* the absent config files; in both cases no differ subprocess was started;
\* with the executable and every named config file there it returns no
\* upfront error.
C12_UpfrontErrors ==
    call.op = "generate_delta" =>
        /\ ~RedbendThere => (ret.kind = "exe_not_found" /\ run.invoked = <<>>)
        /\ (RedbendThere /\ AbsentConfigs # {}) =>
               /\ ret.kind = "config_not_found"
               /\ SeqToSet(ret.names) = AbsentConfigs
               /\ run.invoked = <<>>
        /\ (RedbendThere /\ AbsentConfigs = {}) => ret.kind \in {"none", "summary"}

\* two different config files are requested and both are absent
C12_Witness ==
    /\ call.op = "generate_delta"
    /\ RedbendThere
    /\ ret.kind = "config_not_found"
    /\ Cardinality(AbsentConfigs) = 2
    /\ Len(ret.names) = 2

UpfrontErrors ==
    {"exe_not_found", "config_not_found", "partition_files_missing"}

\* C17: a delta call that returned an upfront error (executable not found,
\* missing config files, missing image files) left the working directory as
\* it was when the call started: no directory and no file was created,
\* removed or changed
C17_ErrorsLeaveNoTrace ==
    (Returned /\ ret.kind \in UpfrontErrors) => disk = run.before

\* C18: every call ends by returning a status value; no exception raised
\* inside it (here: by a subprocess that cannot be started) reaches the caller
C18_NoRawException ==
    Returned => ret.kind # "raised"

IsPrefix(a, b) == Len(a) <= Len(b) /\ SubSeq(b, 1, Len(a)) = a

\* the subprocesses of units started and not yet ended
InFlight == Len(UnitInvocations) - Len(run.results)

\* C20: during a delta run at most one unit subprocess is in flight, a unit
\* is started only when the outcomes of all units started before it have
\* been appended, and the list of outcomes changes only by one outcome being
\* appended
C20_SequentialUnits ==
    /\ [](run.tool # "none" => InFlight \in {0, 1})
    /\ [][Len(UnitInvocations') > Len(UnitInvocations) =>
            /\ InFlight = 0
            /\ Len(UnitInvocations') = Len(UnitInvocations) + 1
            /\ run'.results = run.results
         ]_vars
    /\ [][(run.pc = "loop" /\ run.results # run'.results) =>
            /\ IsPrefix(run.results, run'.results)
            /\ Len(run'.results) = Len(run.results) + 1
         ]_vars

\* the second unit is in flight, after the failure of the first was recorded
C20_Witness ==
    /\ run.pc = "loop"
    /\ Len(run.results) = 1 /\ ~run.results[1].ok
    /\ Len(UnitInvocations) = 2
    /\ InFlight = 1

\* the candidates probed so far by the call, in the order of their probes
Probed ==
    LET probes == SelectSeq(run.invoked, LAMBDA c : c.verb = "-V")
    IN  [i \in 1..Len(probes) |-> probes[i].exe[1]]

\* C21: generate_xdelta probes the candidate names in list order; the
\* candidate it uses is the last one probed and the one whose probe exited
\* with code zero; a candidate whose probe did not is followed by the probe
\* of the next candidate; and a call that ends with no candidate accepted
\* returns the executable-not-found error, every candidate probed and no
\* encoder started
C21_ProbeOrder ==
    call.op = "generate_xdelta" =>
        /\ IsPrefix(Probed, xdelta_candidates)
        /\ run.exe # <<>> =>
               /\ run.probed = "ok"
               /\ run.exe = <<Probed[Len(Probed)]>>
        /\ (run.pc = "probe" /\ Probed # <<>>) =>
               /\ run.probed # "ok"
               /\ Len(Probed) < Len(xdelta_candidates)
        /\ (Returned /\ run.exe = <<>>) =>
               /\ run.probed # "ok"
               /\ ret.kind = "exe_not_found"
               /\ Probed = xdelta_candidates
               /\ UnitInvocations = <<>>

====
